---- MODULE Spec2Model ----
(***************************************************************************)
(* A model of imexam.connect.Connect: the interactive examination session  *)
(* (Connect.imexam and Connect._run_imexam) running against an external    *)
(* viewer whose user may switch frames, load images and press keys.        *)
(*                                                                         *)
(* Strings that the code inspects character by character (the key of a     *)
(* cursor event) are sequences of one-character strings, so that           *)
(* `'q' in current_key` and the truth value of a key are computed as       *)
(* Python computes them.                                                   *)
(***************************************************************************)
EXTENDS Integers, Sequences, FiniteSets, TLC

----------------------------------------------------------------------------
(* Bounds of the model *)

MaxReads == 3
MaxSessions == 2

(* The frames of the viewer. *)
Frames == {1, 2}

(* File names the viewer can report; "" is "no image loaded". *)
NoFile == ""
ImageFile == "a.fits"

(* Key names a cursor event can carry. *)
KeyA == <<"a">>
KeyZ == <<"z">>
KeyQ == <<"q">>
KeyEmpty == <<>>
KeyEqual == <<"e", "q", "u", "a", "l">>
EventKeys == {KeyA, KeyZ, KeyQ, KeyEmpty, KeyEqual}

(* Keys and handlers a user can register; "h1" is the built-in handler of *)
(* the key a.                                                              *)
RegKeys == {KeyA, KeyQ}
Handlers == {"h2"}

(* Image coordinates a cursor event can carry. *)
Coords == {<<10, 20>>, <<11, 21>>}

(* Values of the `viewer` argument of Connect(); the default is 'ds9'. *)
DefaultViewer == <<"d", "s", "9">>
ViewerNames == { DefaultViewer, <<"D", "S", "9">>, <<"D", "s", "9">>,
                 <<"g", "i", "n", "g", "a">>, <<"d", "s", "9", "x">>, << >> }

(* Exceptions readcursor can raise. *)
ReadErrors == {"KeyError", "IOError"}

----------------------------------------------------------------------------
(* Python values *)

Str(s) == [t |-> "str", s |-> s]
None == [t |-> "None"]

(* bool(v) of a str or None *)
Truthy(v) == v.t = "str" /\ Len(v.s) > 0

(* 'q' in k, for a str k *)
ContainsQ(k) == \E i \in DOMAIN k : k[i] = "q"

(* k in keys, for a list of str *)
InList(k, ks) == \E i \in DOMAIN ks : ks[i] = k

(* str.lower() *)
UpperCase == <<"A", "B", "C", "D", "E", "F", "G", "H", "I", "J", "K", "L", "M",
               "N", "O", "P", "Q", "R", "S", "T", "U", "V", "W", "X", "Y", "Z">>
LowerCase == <<"a", "b", "c", "d", "e", "f", "g", "h", "i", "j", "k", "l", "m",
               "n", "o", "p", "q", "r", "s", "t", "u", "v", "w", "x", "y", "z">>
LowerChar(c) ==
  IF \E i \in DOMAIN UpperCase : UpperCase[i] = c
  THEN LowerCase[CHOOSE i \in DOMAIN UpperCase : UpperCase[i] = c]
  ELSE c

(* A variant of Lower that leaves the case as it is. *)
Lower_AsIs(s) == s

Lower(s) == [i \in DOMAIN s |-> LowerChar(s[i])]

(* sub in s, for two str *)
HasSubstr(sub, s) ==
  \E i \in 0..(Len(s) - Len(sub)) :
     \A j \in DOMAIN sub : s[i + j] = sub[j]

----------------------------------------------------------------------------
VARIABLES
  viewerArg,      \* the `viewer` argument of Connect()
  window,         \* __init__ has created self.window
  ctor,           \* what __init__ did, in order
  vframe,         \* viewer: the frame displayed
  vfile,          \* viewer: frame -> file name of the image loaded in it ("" none)
  registry,       \* exam: the key bindings, in registration order
  lastReg,        \* the last register() call since the last imexam() call
  current_frame,  \* Connect.current_frame
  data,           \* exam: the pixel data handed to set_data
  pc,             \* position of the one thread of control
  keys,           \* _run_imexam: keys
  current_key,    \* _run_imexam: current_key
  check_frame,    \* _run_imexam: check_frame
  x,              \* _run_imexam: x (0: not yet assigned)
  y,              \* _run_imexam: y (0: not yet assigned)
  result,         \* how the last imexam() call ended
  nSessions,      \* imexam() calls so far
  startFile,      \* what get_filename() returned at the start of imexam()
  ev,             \* outcome of the last readcursor() of this call
  itCall,         \* the handler invocation of this iteration
  nReads,         \* readcursor() calls of this imexam() call
  nFetch,         \* get_data() calls of this imexam() call
  nCalls,         \* handler invocations of this imexam() call
  nInvalid,       \* "Invalid key" lines printed by this imexam() call
  nLog,           \* logging.info records of this imexam() call
  nBoundEv,       \* events read whose key is not 'q' and is in keys
  nUnboundEv,     \* events read whose key is not 'q' and is not in keys
  polledSame,     \* this iteration: the polled identity equalled current_frame
  itFetch,        \* get_data() calls of this iteration
  itCalls,        \* handler invocations of this iteration
  itInvalid,      \* "Invalid key" lines of this iteration
  itReads,        \* readcursor() calls of this iteration
  handlerBusy,    \* a handler started by do_option has not returned yet
  printed,        \* what the start of _run_imexam printed, in order
  nFrame,         \* frame() calls of this imexam() call
  nChanged        \* iterations whose polled identity differed from current_frame

viewer == <<vframe, vfile>>
exam == <<registry, lastReg>>
locals == <<keys, current_key, check_frame, x, y>>
counts == <<nReads, nFetch, nCalls, nInvalid, nLog, nBoundEv, nUnboundEv>>
iter == <<polledSame, itFetch, itCalls, itInvalid, itCall>>
ghosts == <<itReads, handlerBusy, printed, nFrame, nChanged>>
object == <<viewerArg, window, ctor>>
vars == <<viewerArg, window, ctor, vframe, vfile, registry, lastReg, current_frame, data, pc,
          keys, current_key, check_frame, x, y, result, nSessions, startFile,
          ev, nReads, nFetch, nCalls, nInvalid, nLog, nBoundEv,
          nUnboundEv, polledSame, itFetch, itCalls, itInvalid, itCall,
          itReads, handlerBusy, printed, nFrame, nChanged>>

----------------------------------------------------------------------------
(* The viewer: the calls on self.window *)

(* window.frame() *)
frame == vframe

(* window.get_filename() *)
get_data_filename == vfile[vframe]

(* window.get_data(): the pixels of the image in the displayed frame *)
get_data == [frame |-> vframe, file |-> vfile[vframe]]

NoData == [frame |-> 0, file |-> NoFile]
NoEv == [kind |-> "none", key |-> <<>>, x |-> 0, y |-> 0,
         frame |-> 0, file |-> NoFile, err |-> ""]
NoCall == [key |-> <<>>, handler |-> "", data |-> NoData, x |-> 0, y |-> 0]

(* The user switches the displayed frame. *)
UserSwitchFrame ==
  /\ \E f \in Frames \ {vframe} : vframe' = f
  /\ UNCHANGED <<object, vfile, exam, current_frame, data, pc, locals,
                 result, nSessions, startFile, ev, counts, iter, ghosts>>

(* The user loads an image into the displayed frame, when it holds none. *)
UserLoadImage ==
  /\ vfile[vframe] = NoFile
  /\ vfile' = [vfile EXCEPT ![vframe] = ImageFile]
  /\ UNCHANGED <<object, vframe, exam, current_frame, data, pc, locals,
                 result, nSessions, startFile, ev, counts, iter, ghosts>>

----------------------------------------------------------------------------
(* The key registry: the calls on self.exam *)

(* exam.get_options(): the bound keys, in order *)
get_options == [i \in DOMAIN registry |-> registry[i].key]

(* the handler bound to k *)
resolve(k) == registry[CHOOSE i \in DOMAIN registry : registry[i].key = k].handler

(* A variant of Registered in which a key that is already bound keeps its  *)
(* first binding.                                                          *)
Registered_KeepFirst(reg, k, h) ==
  IF \E i \in DOMAIN reg : reg[i].key = k
  THEN reg
  ELSE Append(reg, [key |-> k, handler |-> h])

(* registry after exam.register({k: h}), the call Connect.register         *)
(* delegates to: the registry "adds or overwrites entries"; a key that is  *)
(* already bound gets the new binding in its place in the order, a key     *)
(* that is not bound is appended.                                          *)
Registered(reg, k, h) ==
  IF \E i \in DOMAIN reg : reg[i].key = k
  THEN [i \in DOMAIN reg |->
          IF reg[i].key = k THEN [key |-> k, handler |-> h] ELSE reg[i]]
  ELSE Append(reg, [key |-> k, handler |-> h])

NoReg == [key |-> << >>, handler |-> ""]

(* Connect.register(user_funcs), between sessions *)
Register ==
  /\ pc = "idle"
  /\ \E k \in RegKeys, h \in Handlers :
        /\ registry' = Registered(registry, k, h)
        /\ lastReg' = [key |-> k, handler |-> h]
  /\ UNCHANGED <<object, viewer, current_frame, data, pc, locals, result, nSessions,
                 startFile, ev, counts, iter, ghosts>>

----------------------------------------------------------------------------
(* Connect.imexam *)

(* A variant of ValidImage that takes any answer for a loaded image. *)
ValidImage_Always(fn) == TRUE

(* `if validImage:` for the file name get_filename() returned *)
ValidImage(fn) == fn # NoFile

(* imexam(), lines 81-82 and 86-87: ask the viewer for the file name; with  *)
(* none, warn "No image loaded in viewer" and return.                      *)
ImexamStart ==
  /\ pc = "idle"
  /\ nSessions < MaxSessions
  /\ nSessions' = nSessions + 1
  /\ startFile' = get_data_filename
  /\ IF ValidImage(get_data_filename)
     THEN pc' = "im83" /\ result' = "running"
     ELSE pc' = "idle" /\ result' = "warned"
  /\ ev' = NoEv /\ itCall' = NoCall
  /\ nReads' = 0 /\ nFetch' = 0 /\ nCalls' = 0 /\ nInvalid' = 0 /\ nLog' = 0
  /\ nBoundEv' = 0 /\ nUnboundEv' = 0
  /\ polledSame' = TRUE
  /\ itFetch' = 0 /\ itCalls' = 0 /\ itInvalid' = 0
  /\ keys' = << >> /\ current_key' = None /\ check_frame' = 0
  /\ x' = 0 /\ y' = 0
  /\ lastReg' = NoReg
  /\ itReads' = 0 /\ handlerBusy' = FALSE /\ printed' = << >>
  /\ nFrame' = 0 /\ nChanged' = 0
  /\ UNCHANGED <<object, viewer, registry, current_frame, data>>

(* A variant of ImexamGetData that fetches but does not call set_data. *)
ImexamGetData_NotSet ==
  /\ pc = "im83"
  /\ nFetch' = nFetch + 1
  /\ pc' = "im84"
  /\ UNCHANGED <<object, viewer, exam, current_frame, data, locals, result,
                 nSessions, startFile, ev, nReads, nCalls, nInvalid, nLog,
                 nBoundEv, nUnboundEv, iter, ghosts>>

(* line 83: self.exam.set_data(self.window.get_data()) *)
ImexamGetData ==
  /\ pc = "im83"
  /\ data' = get_data
  /\ nFetch' = nFetch + 1
  /\ pc' = "im84"
  /\ UNCHANGED <<object, viewer, exam, current_frame, locals, result, nSessions,
                 startFile, ev, nReads, nCalls, nInvalid, nLog,
                 nBoundEv, nUnboundEv, iter, ghosts>>

(* line 84: self.current_frame = self.frame() *)
ImexamFrame ==
  /\ pc = "im84"
  /\ current_frame' = frame
  /\ pc' = "run96"
  /\ nFrame' = nFrame + 1
  /\ UNCHANGED <<object, viewer, exam, data, locals, result, nSessions, startFile,
                 ev, counts, iter, itReads, handlerBusy, printed, nChanged>>

----------------------------------------------------------------------------
(* Connect._run_imexam *)

(* A variant of StartPrints that lists the keys before the banner. *)
StartPrints_OptionsFirst == << "options", "Press 'q' to quit" >>

(* lines 96-98: print("\nPress 'q' to quit\n"), then print_options() *)
StartPrints == << "Press 'q' to quit", "options" >>

(* lines 96-100: banner, keys = get_options(), print_options(),            *)
(* current_key = keys[0], logging.info of the file name. The registry      *)
(* always holds the built-in bindings, so keys[0] exists.                  *)
RunStart ==
  /\ pc = "run96"
  /\ keys' = get_options
  /\ current_key' = Str(get_options[1])
  /\ nLog' = nLog + 1
  /\ pc' = "while101"
  /\ printed' = StartPrints
  /\ UNCHANGED <<object, viewer, exam, current_frame, data, check_frame, x, y,
                 result, nSessions, startFile, ev, nReads, nFetch,
                 nCalls, nInvalid, nBoundEv, nUnboundEv, iter, itReads, handlerBusy, nFrame, nChanged>>

(* line 101: `while current_key:`; falling out of the loop returns from    *)
(* _run_imexam and from imexam.                                            *)
WhileTest ==
  /\ pc = "while101"
  /\ IF Truthy(current_key)
     THEN pc' = "poll102" /\ result' = result
     ELSE pc' = "idle" /\ result' = "returned"
  /\ UNCHANGED <<object, viewer, exam, current_frame, data, locals, nSessions,
                 startFile, ev, counts, iter, ghosts>>

(* A variant of FrameChanged that refreshes in every iteration. *)
FrameChanged_Always(cur, chk) == TRUE

(* line 103: `if self.current_frame != check_frame:` *)
FrameChanged(cur, chk) == cur # chk

(* lines 102-103: check_frame = self.frame() and the comparison *)
PollFrame ==
  /\ pc = "poll102"
  /\ check_frame' = frame
  /\ pc' = IF FrameChanged(current_frame, frame) THEN "fetch104" ELSE "read108"
  /\ polledSame' = (current_frame = frame)
  /\ itFetch' = 0 /\ itCalls' = 0 /\ itInvalid' = 0 /\ itCall' = NoCall
  /\ itReads' = 0
  /\ nFrame' = nFrame + 1
  /\ nChanged' = nChanged + (IF current_frame # frame THEN 1 ELSE 0)
  /\ UNCHANGED <<object, viewer, exam, current_frame, data, keys, current_key, x, y,
                 result, nSessions, startFile, ev, counts, handlerBusy, printed>>

(* A variant of RefreshedFrame that forgets line 105. *)
RefreshedFrame_Stale(chk) == current_frame

(* current_frame after line 105 *)
RefreshedFrame(chk) == chk

(* lines 104-105: set_data(get_data()); self.current_frame = check_frame *)
FetchData ==
  /\ pc = "fetch104"
  /\ data' = get_data
  /\ current_frame' = RefreshedFrame(check_frame)
  /\ nFetch' = nFetch + 1
  /\ itFetch' = itFetch + 1
  /\ pc' = "log106"
  /\ UNCHANGED <<object, viewer, exam, locals, result, nSessions, startFile, ev,
                 nReads, nCalls, nInvalid, nLog, nBoundEv,
                 nUnboundEv, polledSame, itCalls, itInvalid, itCall, ghosts>>

(* A variant of LogFrame that writes no record. *)
LogFrame_Silent ==
  /\ pc = "log106"
  /\ pc' = "read108"
  /\ UNCHANGED <<object, viewer, exam, current_frame, data, locals, result,
                 nSessions, startFile, ev, counts, iter, ghosts>>

(* line 106: logging.info of the file name *)
LogFrame ==
  /\ pc = "log106"
  /\ nLog' = nLog + 1
  /\ pc' = "read108"
  /\ UNCHANGED <<object, viewer, exam, current_frame, data, locals, result,
                 nSessions, startFile, ev, nReads, nFetch, nCalls,
                 nInvalid, nBoundEv, nUnboundEv, iter, ghosts>>

(* line 108, readcursor returns: the user pressed key k at c in the frame  *)
(* displayed at that moment.                                               *)
ReadCursorEvent ==
  /\ pc = "read108"
  /\ nReads < MaxReads
  /\ \E k \in EventKeys, c \in Coords :
        /\ x' = c[1] /\ y' = c[2] /\ current_key' = Str(k)
        /\ ev' = [kind |-> "event", key |-> k, x |-> c[1], y |-> c[2],
                  frame |-> vframe, file |-> vfile[vframe], err |-> ""]
        /\ nBoundEv' = nBoundEv + (IF k # KeyQ /\ InList(k, keys) THEN 1 ELSE 0)
        /\ nUnboundEv' = nUnboundEv + (IF k # KeyQ /\ ~InList(k, keys) THEN 1 ELSE 0)
  /\ nReads' = nReads + 1
  /\ pc' = "classify112"
  /\ itReads' = itReads + 1
  /\ UNCHANGED <<object, viewer, exam, current_frame, data, keys, check_frame,
                 result, nSessions, startFile, nFetch, nCalls,
                 nInvalid, nLog, iter, handlerBusy, printed, nFrame, nChanged>>

(* A variant of Caught with no except clause. *)
Caught_Nothing(err) == FALSE

(* line 109: `except KeyError:` *)
Caught(err) == err = "KeyError"

(* A variant of KeyAfterKeyError that leaves a key that is not bound. *)
KeyAfterKeyError_Unbound == KeyZ

(* line 111: current_key = 'q' *)
KeyAfterKeyError == KeyQ

(* lines 108-111, readcursor raises: a KeyError prints "Invalid key" and   *)
(* sets current_key = 'q'; any other exception leaves imexam().            *)
ReadCursorRaises ==
  /\ pc = "read108"
  /\ nReads < MaxReads
  /\ \E e \in ReadErrors :
        /\ ev' = [NoEv EXCEPT !.kind = "fail", !.err = e]
        /\ IF Caught(e)
           THEN /\ current_key' = Str(KeyAfterKeyError)
                /\ nInvalid' = nInvalid + 1 /\ itInvalid' = itInvalid + 1
                /\ pc' = "classify112" /\ result' = result
           ELSE /\ UNCHANGED <<current_key, nInvalid, itInvalid>>
                /\ pc' = "idle" /\ result' = "raised"
  /\ nReads' = nReads + 1
  /\ itReads' = itReads + 1
  /\ UNCHANGED <<object, viewer, exam, current_frame, data, keys, check_frame, x, y,
                 nSessions, startFile, nFetch, nCalls, nLog,
                 nBoundEv, nUnboundEv, polledSame, itFetch, itCalls, itCall, handlerBusy, printed, nFrame, nChanged>>

(* A variant of Branch without the test for 'q'. *)
Branch_NoQuit(k, ks) ==
  IF ~InList(k, ks) THEN "invalid" ELSE "dispatch"

(* A variant of Branch that looks the key up before testing for 'q'. *)
Branch_BoundFirst(k, ks) ==
  IF InList(k, ks) THEN "dispatch"
  ELSE IF ContainsQ(k) THEN "quit"
  ELSE "invalid"

(* lines 112-117: which branch of the if/elif/else a key takes *)
Branch(k, ks) ==
  IF ~InList(k, ks) /\ ~ContainsQ(k) THEN "invalid"
  ELSE IF ContainsQ(k) THEN "quit"
  ELSE "dispatch"

(* A variant of do_option that passes the coordinates in the other order. *)
do_option_Swapped(cx, cy, k) ==
  [key |-> k, handler |-> resolve(k), data |-> data, x |-> cy, y |-> cx]

(* line 117: self.exam.do_option(x, y, current_key) runs the handler bound *)
(* to the key on the data last given to set_data.                          *)
do_option(cx, cy, k) ==
  [key |-> k, handler |-> resolve(k), data |-> data, x |-> cx, y |-> cy]

(* A variant of PcInDoOption that starts the handler and goes on. *)
PcInDoOption_NotAwaited == "while101"

(* line 117: do_option is an ordinary call; control stays in it until the  *)
(* handler returns.                                                        *)
PcInDoOption == "handler117"

(* lines 112-117 *)
Classify ==
  /\ pc = "classify112"
  /\ LET b == Branch(current_key.s, keys) IN
       /\ current_key' = IF b = "quit" THEN None ELSE current_key
       /\ nInvalid' = nInvalid + (IF b = "invalid" THEN 1 ELSE 0)
       /\ itInvalid' = itInvalid + (IF b = "invalid" THEN 1 ELSE 0)
       /\ nCalls' = nCalls + (IF b = "dispatch" THEN 1 ELSE 0)
       /\ itCalls' = itCalls + (IF b = "dispatch" THEN 1 ELSE 0)
       /\ itCall' = IF b = "dispatch" THEN do_option(x, y, current_key.s)
                    ELSE itCall
       /\ handlerBusy' = (b = "dispatch")
       /\ pc' = IF b = "dispatch" THEN PcInDoOption ELSE "while101"
  /\ UNCHANGED <<object, viewer, exam, current_frame, data, keys, check_frame, x, y,
                 result, nSessions, startFile, ev, nReads, nFetch, nLog,
                 nBoundEv, nUnboundEv, polledSame, itFetch,
                 itReads, printed, nFrame, nChanged>>

(* line 117: the handler returns and with it do_option; the next statement *)
(* is the loop test.                                                       *)
HandlerReturns ==
  /\ handlerBusy
  /\ pc = "handler117"
  /\ handlerBusy' = FALSE
  /\ pc' = "while101"
  /\ UNCHANGED <<object, viewer, exam, current_frame, data, locals, result,
                 nSessions, startFile, ev, counts, iter,
                 itReads, printed, nFrame, nChanged>>

----------------------------------------------------------------------------
(* Connect.__init__ *)

(* line 54: _possible_viewers *)
possible_viewers == << DefaultViewer >>

(* what __init__ does for a supported viewer, lines 60-64 *)
CtorDone == << "ds9()", "Imexamine()", "frame()" >>

(* what __init__ does for an unsupported viewer, lines 56-57 *)
CtorRefused == << "warn", "raise NotImplementedError" >>

(* Connect(viewer=viewerArg), lines 54-65 *)
Construct ==
  /\ pc = "new"
  /\ IF ~InList(Lower(viewerArg), possible_viewers)
     THEN /\ ctor' = CtorRefused
          /\ pc' = "failed"
          /\ UNCHANGED <<window, current_frame>>
     ELSE /\ window' = HasSubstr(DefaultViewer, Lower(viewerArg))
          /\ current_frame' = frame
          /\ ctor' = CtorDone
          /\ pc' = "idle"
  /\ UNCHANGED <<viewerArg, viewer, exam, data, locals, result, nSessions,
                 startFile, ev, counts, iter, ghosts>>

(* The state after Connect(): current_frame = self.frame(), the exam holds *)
(* its built-in binding and no data.                                       *)
Init ==
  /\ viewerArg = DefaultViewer
  /\ window = TRUE
  /\ ctor = CtorDone
  /\ vframe \in Frames
  /\ vfile \in [Frames -> {NoFile, ImageFile}]
  /\ registry = << [key |-> KeyA, handler |-> "h1"] >>
  /\ lastReg = NoReg
  /\ current_frame = vframe
  /\ data = NoData
  /\ pc = "idle"
  /\ keys = << >>
  /\ current_key = None
  /\ check_frame = 0
  /\ x = 0 /\ y = 0
  /\ result = "none"
  /\ nSessions = 0
  /\ startFile = NoFile
  /\ ev = NoEv /\ itCall = NoCall
  /\ nReads = 0 /\ nFetch = 0 /\ nCalls = 0 /\ nInvalid = 0 /\ nLog = 0
  /\ nBoundEv = 0 /\ nUnboundEv = 0
  /\ polledSame = TRUE
  /\ itFetch = 0 /\ itCalls = 0 /\ itInvalid = 0
  /\ itReads = 0 /\ handlerBusy = FALSE /\ printed = << >>
  /\ nFrame = 0 /\ nChanged = 0

Next ==
  \/ UserSwitchFrame
  \/ UserLoadImage
  \/ Register
  \/ ImexamStart
  \/ ImexamGetData
  \/ ImexamFrame
  \/ RunStart
  \/ WhileTest
  \/ PollFrame
  \/ FetchData
  \/ LogFrame
  \/ ReadCursorEvent
  \/ ReadCursorRaises
  \/ Classify
  \/ HandlerReturns

Spec == Init /\ [][Next]_vars

(* The state before Connect(viewer=...) is called. *)
CtorInit ==
  /\ viewerArg \in ViewerNames
  /\ window = FALSE
  /\ ctor = << >>
  /\ vframe \in Frames
  /\ vfile \in [Frames -> {NoFile, ImageFile}]
  /\ registry = << [key |-> KeyA, handler |-> "h1"] >>
  /\ lastReg = NoReg
  /\ current_frame = 0
  /\ data = NoData
  /\ pc = "new"
  /\ keys = << >>
  /\ current_key = None
  /\ check_frame = 0
  /\ x = 0 /\ y = 0
  /\ result = "none"
  /\ nSessions = 0
  /\ startFile = NoFile
  /\ ev = NoEv /\ itCall = NoCall
  /\ nReads = 0 /\ nFetch = 0 /\ nCalls = 0 /\ nInvalid = 0 /\ nLog = 0
  /\ nBoundEv = 0 /\ nUnboundEv = 0
  /\ polledSame = TRUE
  /\ itFetch = 0 /\ itCalls = 0 /\ itInvalid = 0
  /\ itReads = 0 /\ handlerBusy = FALSE /\ printed = << >>
  /\ nFrame = 0 /\ nChanged = 0

(* Construction of the object, with the viewer's user and register(). *)
CtorNext ==
  \/ Construct
  \/ UserSwitchFrame
  \/ UserLoadImage
  \/ Register

CtorSpec == CtorInit /\ [][CtorNext]_vars

(* The steps the one thread of control takes by itself: every statement of *)
(* imexam() and _run_imexam() but the blocking readcursor().               *)
ControlStep ==
  \/ ImexamGetData
  \/ ImexamFrame
  \/ RunStart
  \/ WhileTest
  \/ PollFrame
  \/ FetchData
  \/ LogFrame
  \/ Classify
  \/ HandlerReturns

(* The thread goes on running, and every handler returns. *)
FairSpec == Spec /\ WF_vars(ControlStep)


----------------------------------------------------------------------------
(* Properties *)

(* The last cursor read of this call returned an event with key k. *)
ReadKey(k) == ev.kind = "event" /\ ev.key = k

(* The last cursor read returned an event whose key is neither 'q' nor bound. *)
ReadUnbound == ev.kind = "event" /\ ev.key # KeyQ /\ ~InList(ev.key, keys)

(* The last cursor read returned an event whose key is bound. *)
ReadBound == ev.kind = "event" /\ InList(ev.key, keys)

(* C1: an event whose key is not 'q' and not bound prints "Invalid key"    *)
(* once, invokes no handler, and the loop goes on to the next iteration;   *)
(* it never ends the session.                                              *)
C1_InvalidKeyNeverTerminates ==
  /\ (pc = "while101" /\ ReadUnbound) =>
        (itInvalid = 1 /\ itCalls = 0 /\ Truthy(current_key))
  /\ (pc = "idle" /\ result = "returned") => ~ReadUnbound

(* C2, as stated: whatever readcursor raises, nothing propagates out of    *)
(* imexam(): the call ends by returning.                                   *)
C2_AnyReadFailureGraceful ==
  ev.kind = "fail" => (result # "raised" /\ (pc = "idle" => result = "returned"))

(* C2, amended: a KeyError raised by readcursor ends the session           *)
(* gracefully (no further cursor read, imexam() returns); a failure of any *)
(* other kind propagates out of imexam().                                  *)
C2_KeyErrorGraceful ==
  ev.kind = "fail" =>
    IF ev.err = "KeyError"
    THEN /\ pc \in {"classify112", "while101", "idle"}
         /\ result \in {"running", "returned"}
         /\ pc = "idle" => result = "returned"
    ELSE pc = "idle" /\ result = "raised"

C2_Witness ==
  ev.kind = "fail" /\ ev.err = "KeyError" /\ pc = "idle" /\ result = "returned"

(* C3, as stated: imexam() with no image loaded fails with an error and    *)
(* attempts no cursor read.                                                *)
C3_NoImageRaises ==
  (nSessions > 0 /\ startFile = NoFile) => (result = "raised" /\ nReads = 0)

(* C3, amended: imexam() with no image loaded warns "No image loaded in    *)
(* viewer" and returns normally without entering the loop: zero cursor     *)
(* reads are attempted.                                                    *)
C3_NoImageWarns ==
  (nSessions > 0 /\ startFile = NoFile) =>
     (pc = "idle" /\ result = "warned" /\ nReads = 0)

C3_Witness ==
  nSessions > 0 /\ startFile = NoFile /\ result = "warned" /\ pc = "idle"

(* C4: over the events read up to and including the first quit event,      *)
(* there is exactly one handler call per event with a bound key, exactly   *)
(* one "Invalid key" per event with an unbound key, and the session ends   *)
(* on the quit event only.                                                 *)
C4_OneActionPerEvent ==
  (pc \in {"while101", "idle"} /\ ev.kind = "event") =>
     /\ nCalls = nBoundEv
     /\ nInvalid = nUnboundEv
     /\ pc = "idle" => ev.key = KeyQ

(* C5, as stated: an event with a bound key runs the handler bound to it   *)
(* exactly once, on the current data and the event's own x and y, and the  *)
(* session is Active again.                                                *)
C5_BoundKeyDispatched ==
  (pc = "while101" /\ ReadBound) =>
     /\ itCalls = 1
     /\ itCall = [key |-> ev.key, handler |-> resolve(ev.key), data |-> data,
                  x |-> ev.x, y |-> ev.y]
     /\ Truthy(current_key)

(* C5, amended: an event with a bound key other than the reserved 'q' runs *)
(* the handler bound to it exactly once, on the current data and the       *)
(* event's own x and y, and the session is Active again.                   *)
C5_BoundNonQuitKeyDispatched ==
  (pc = "while101" /\ ReadBound /\ ev.key # KeyQ) =>
     /\ itCalls = 1
     /\ itCall = [key |-> ev.key, handler |-> resolve(ev.key), data |-> data,
                  x |-> ev.x, y |-> ev.y]
     /\ Truthy(current_key)

C5_Witness ==
  pc = "while101" /\ ReadBound /\ ev.key = KeyA /\ nReads >= 2 /\ itCalls = 1

(* C6: in an iteration whose polled identity equals current_frame no data  *)
(* is fetched and the cache is untouched; when it differs exactly one      *)
(* get_data happens, data becomes that buffer and current_frame the polled *)
(* identity.                                                               *)
C6_RefreshOnlyOnChange ==
  /\ [][ /\ (pc = "poll102" /\ pc' # pc) =>
              IF current_frame = vframe
              THEN pc' = "read108" /\ UNCHANGED <<data, current_frame, nFetch>>
              ELSE pc' = "fetch104" /\ check_frame' = vframe
         /\ (pc = "fetch104" /\ pc' # pc) =>
              /\ nFetch' = nFetch + 1
              /\ data' = get_data
              /\ current_frame' = check_frame ]_vars
  /\ [](pc \in {"read108", "classify112"} =>
          itFetch = IF polledSame THEN 0 ELSE 1)

C6_Witness ==
  pc = "read108" /\ ~polledSame /\ itFetch = 1 /\ nReads >= 1
  /\ current_frame = check_frame

(* C7: an event with key 'q' ends the session by a normal return and runs  *)
(* no handler, also when 'q' is bound in the key list.                     *)
C7_QuitNeverDispatched ==
  ReadKey(KeyQ) =>
     /\ pc \in {"classify112", "while101", "idle"}
     /\ itCalls = 0
     /\ pc = "while101" => current_key = None
     /\ pc = "idle" => result = "returned"

C7_Witness ==
  ReadKey(KeyQ) /\ InList(KeyQ, keys) /\ pc = "idle" /\ result = "returned"

(* C8: once the loop is entered, the session ends only after an event with *)
(* key exactly 'q' or after a failed cursor read.                          *)
C8_EndsOnlyOnQuitOrFailure ==
  (pc = "idle" /\ result \in {"returned", "raised"}) =>
     (ev.kind = "fail" \/ ReadKey(KeyQ))

(* C9: a handler always runs on the pixel data of the frame that was       *)
(* displayed when its cursor event was produced.                           *)
C9_HandlerSeesEventFrame ==
  (pc = "while101" /\ itCalls = 1) =>
     itCall.data = [frame |-> ev.frame, file |-> ev.file]

(* C10: after a frame change to a frame with no image the empty buffer is  *)
(* not cached and the session does not go on to the cursor read.           *)
C10_NoEmptyBufferCached ==
  (pc \in {"log106", "read108", "classify112"} /\ ~polledSame /\ itFetch = 1) =>
     data.file # NoFile

(* Where control is inside the loop of _run_imexam. *)
LoopPcs == {"while101", "poll102", "fetch104", "log106", "read108",
            "classify112", "handler117"}

(* C11: when imexam() returns after the loop the loop has terminated; no   *)
(* cursor is read after a 'q' event, and with the thread running and every *)
(* handler returning a 'q' event leads to the return of imexam().          *)
C11_QuitLeadsToReturn ==
  /\ []((pc = "idle" /\ result = "returned") => ~Truthy(current_key))
  /\ [][(ReadKey(KeyQ) /\ pc # "idle") => nReads' = nReads]_vars
  /\ (ReadKey(KeyQ) /\ pc = "classify112")
        ~> (ReadKey(KeyQ) /\ pc = "idle" /\ result = "returned")

C11_Witness ==
  /\ ReadKey(KeyQ) /\ ~InList(KeyQ, keys) /\ nReads >= 2
  /\ pc = "idle" /\ result = "returned"

(* C12: a handler runs only inside do_option, after the one cursor read of *)
(* its iteration; while it runs there is no other handler call, no frame   *)
(* poll, no cursor read, and the data is not replaced.                     *)
C12_HandlersRunToCompletion ==
  /\ [](handlerBusy =>
          (pc = "handler117" /\ itCalls = 1 /\ itReads = 1 /\ ev.kind = "event"))
  /\ [](itCalls <= 1 /\ nCalls <= nReads)
  /\ [][handlerBusy =>
          /\ UNCHANGED <<data, current_frame, check_frame>>
          /\ nReads' = nReads /\ nFetch' = nFetch
          /\ nFrame' = nFrame /\ nCalls' = nCalls]_vars

C12_Witness == handlerBusy /\ pc = "handler117" /\ nCalls = 2

(* C13: registering a key that is already bound overwrites the prior       *)
(* binding.  After a register call the key resolves to the binding         *)
(* registered last; every step that changes the registry leaves each key   *)
(* at the position it had, leaves the bindings of the other keys as they   *)
(* were, and grows the list by one exactly when the key was not bound; no  *)
(* key is listed twice.                                                    *)
C13_LastWriteWins ==
  /\ [](lastReg # NoReg => resolve(lastReg.key) = lastReg.handler)
  /\ [][registry' # registry =>
          /\ \A i \in DOMAIN registry :
                /\ i \in DOMAIN registry'
                /\ registry'[i].key = registry[i].key
                /\ registry[i].key # lastReg'.key => registry'[i] = registry[i]
          /\ Len(registry') =
                Len(registry) + (IF InList(lastReg'.key, get_options) THEN 0 ELSE 1)]_vars
  /\ [](\A i, j \in DOMAIN registry :
          registry[i].key = registry[j].key => i = j)

(* a bound key was registered again after another key was added: it        *)
(* resolves to the new binding and is still listed first                   *)
C13_Witness ==
  /\ lastReg = [key |-> KeyA, handler |-> "h2"]
  /\ resolve(KeyA) = "h2"
  /\ get_options = <<KeyA, KeyQ>>

(* C14: the banner and then the key list are printed once each at the      *)
(* start of _run_imexam, before the first frame poll and cursor read, and  *)
(* not again during the session.                                           *)
C14_BannerThenKeysOnce ==
  /\ []((pc \in LoopPcs \/ nReads > 0 \/ check_frame # 0) =>
          printed = << "Press 'q' to quit", "options" >>)
  /\ [](pc \in {"im83", "im84", "run96"} => printed = << >>)
  /\ [][(pc \in LoopPcs) => printed' = printed]_vars

C14_Witness ==
  pc = "read108" /\ nReads = 2 /\ printed = << "Press 'q' to quit", "options" >>

(* C15: one log record at the start of the session and one per iteration   *)
(* that found the frame changed, written after the cache update and before *)
(* the cursor read; none in the other iterations.                          *)
C15_LogOncePerFrameChange ==
  /\ pc \in {"im83", "im84", "run96"} => nLog = 0
  /\ pc \in {"while101", "poll102", "read108", "classify112", "handler117"} =>
        nLog = 1 + nChanged
  /\ pc \in {"fetch104", "log106"} => nLog = nChanged
  /\ pc = "log106" => (itFetch = 1 /\ current_frame = check_frame /\ itReads = 0)
  /\ (pc = "idle" /\ result \in {"returned", "raised"}) => nLog = 1 + nChanged

C15_Witness == pc = "read108" /\ nChanged = 2 /\ nLog = 3

(* C16: whenever the session blocks in readcursor, current_frame is the    *)
(* identity of the last frame poll and get_data has been called once plus  *)
(* once per iteration that found the frame changed.                        *)
C16_CacheCoherentAtRead ==
  pc = "read108" => (current_frame = check_frame /\ nFetch = 1 + nChanged)

C16_Witness ==
  pc = "read108" /\ nChanged = 1 /\ nFetch = 2 /\ nReads = 2 /\ polledSame

(* C17: when readcursor raises KeyError, the iteration prints "Invalid     *)
(* key" once, runs no handler, leaves current_frame, the data and x, y as  *)
(* they were, and the loop ends without another cursor read.               *)
C17_KeyErrorEndsLoop ==
  /\ []((ev.kind = "fail" /\ ev.err = "KeyError") =>
          /\ itInvalid = 1 /\ itCalls = 0 /\ ~handlerBusy
          /\ pc \in {"classify112", "while101", "idle"}
          /\ pc = "idle" => result = "returned")
  /\ [][(\/ pc = "read108" /\ ev'.kind = "fail" /\ ev'.err = "KeyError"
         \/ ev.kind = "fail" /\ ev.err = "KeyError" /\ pc # "idle") =>
          /\ UNCHANGED <<current_frame, data, x, y, nCalls>>
          /\ pc # "read108" => nReads' = nReads]_vars

C17_Witness ==
  /\ ev.kind = "fail" /\ ev.err = "KeyError" /\ x # 0 /\ nReads >= 2
  /\ pc = "idle" /\ result = "returned" /\ itInvalid = 1

(* C18: a start with no image loaded fetches no data, asks for no frame    *)
(* identity and leaves current_frame and the data as they were; a start    *)
(* with an image loaded sets the data and current_frame from the viewer    *)
(* and enters the loop.                                                    *)
C18_FailedStartNoEffect ==
  /\ [](result = "warned" =>
          (pc = "idle" /\ nFetch = 0 /\ nFrame = 0 /\ nReads = 0 /\ nLog = 0))
  /\ [][(pc = "idle" /\ nSessions' # nSessions) =>
          IF vfile[vframe] = NoFile
          THEN pc' = "idle" /\ result' = "warned"
               /\ UNCHANGED <<current_frame, data>>
          ELSE pc' = "im83" /\ result' = "running"]_vars
  /\ [][(pc = "im83" /\ pc' # pc) =>
          (pc' = "im84" /\ data' = get_data /\ nFetch' = 1)]_vars
  /\ [][(pc = "im84" /\ pc' # pc) =>
          (pc' = "run96" /\ current_frame' = vframe /\ nFrame' = 1)]_vars
  /\ [][(pc = "run96" /\ pc' # pc) => pc' = "while101"]_vars

(* The second call has passed the image test after a first call that     *)
(* found no image: the data is still what the constructor left.           *)
C18_Witness ==
  /\ nSessions = 2 /\ pc = "im83" /\ startFile = ImageFile
  /\ data = NoData /\ nFetch = 0

(* The values of `viewer` that name the one supported viewer. *)
SupportedNames == { <<"d", "s", "9">>, <<"D", "S", "9">>, <<"D", "s", "9">> }

(* C19: Connect() with a viewer name other than 'ds9' in any case raises   *)
(* NotImplementedError before a window is created or a frame identity is   *)
(* asked for; with a supported name current_frame is the viewer's frame    *)
(* identity.                                                               *)
C19_UnsupportedViewerRefused ==
  /\ [](pc = "new" => (ctor = << >> /\ ~window /\ current_frame = 0))
  /\ [](pc # "new" =>
          IF viewerArg \in SupportedNames
          THEN /\ pc = "idle" /\ window
               /\ ctor = << "ds9()", "Imexamine()", "frame()" >>
               /\ current_frame \in Frames
          ELSE /\ pc = "failed" /\ ~window /\ current_frame = 0
               /\ ctor = << "warn", "raise NotImplementedError" >>)
  /\ [][(pc = "new" /\ pc' = "idle") => current_frame' = vframe]_vars

C19_Witness ==
  pc = "failed" /\ viewerArg = <<"d", "s", "9", "x">> /\ ~window

====
